---------------------------- MODULE Spec2Model ----------------------------
(***************************************************************************)
(* Model of the demand-forecast service, src/src/pythonservices/server.py. *)
(*                                                                         *)
(* One invocation of GET /forecast is a linear pass: load the sales rows   *)
(* (load_sales_from_supabase), short-circuit on no data, fill the missing  *)
(* dates, prepare_features, split into train/test, fit, predict, compute   *)
(* the accuracy and return.  The variable pc is the handler's position.    *)
(*                                                                         *)
(* Numbers.  Dates are day numbers counted from 1970-01-01.  Quantities    *)
(* are fixed-point numbers counted in units of 1e-5, so that the epsilon   *)
(* of line 150 is exactly one unit (Eps).  The reported accuracy is        *)
(* counted in hundredths of a percent (10000 = 100.00).  Window means are  *)
(* carried as window sums and the window standard deviation as a multiple *)
(* of its square, which are defined (not NaN) on exactly the same rows.    *)
(* The columns Month, EMA7 and EMA30                                       *)
(* are defined on every row of a gap-free series and are never read by     *)
(* the handler itself (only by the regressor), so they are not carried.    *)
(***************************************************************************)
EXTENDS Integers, Sequences, FiniteSets, TLC

VARIABLES
    pc,             \* position of the handler
    res,            \* what query.execute() does: [kind, data]
    query_days,     \* the request's `days` parameter
    days,           \* the local `days` (line 118 overwrites it)
    raw,            \* load_sales_from_supabase's result: rows [Date, Demand]
    df,             \* the gap-filled daily series
    df_feat,        \* prepare_features(df)
    train,          \* df_feat[:-days]
    test,           \* df_feat[-days:]
    model,          \* "unfit" | "fitted"
    forecast_vals,  \* model.predict(X_test)
    outcome         \* how the invocation ended

vars == <<pc, res, query_days, days, raw, df, df_feat, train, test, model,
          forecast_vals, outcome>>

----------------------------------------------------------------------------
(* Program constants *)

\* Query(30, ge=7, le=365)
MinDays == 7
MaxDays == 365
\* max(7, len(df_feat) // 3)
ShrinkFloor == 7
ShrinkDivisor == 3
\* shift(1), shift(7), shift(90), rolling(window=7), rolling(window=14)
LagShort == 1
LagWeek == 7
\* a long lag that is one day short
LagLong_OffByOne == 90 - 1
LagLong == 90
RollWeek == 7
RollFortnight == 14
\* the 1e-5 of line 150, in quantity units
Eps == 1
\* 100.0 of line 151 in hundredths of a percent (round(accuracy, 2))
Hundred == 10000
\* pandas' missing value; demands are never negative
NaN == -1

----------------------------------------------------------------------------
(* Bounds of the model *)

\* longest gap-free daily history that is enumerated
MaxSpan == 121
\* most records in a sparse query result
MaxObs == 2
\* largest requested horizon enumerated below MaxDays
MaxDaysChecked == 33
\* longest test window handed to the accuracy evaluator on its own
MaxTest == 2

----------------------------------------------------------------------------
(* Small helpers *)

Max(a, b) == IF a >= b THEN a ELSE b
Min(a, b) == IF a <= b THEN a ELSE b
Abs(x) == IF x < 0 THEN -x ELSE x

RECURSIVE SeqSum(_, _, _)
\* s[lo] + ... + s[hi], summed by halves
SeqSum(s, lo, hi) ==
    IF lo > hi THEN 0
    ELSE IF lo = hi THEN s[lo]
    ELSE LET mid == (lo + hi) \div 2
         IN SeqSum(s, lo, mid) + SeqSum(s, mid + 1, hi)

SetMin(S) == CHOOSE x \in S : \A y \in S : x <= y
SetMax(S) == CHOOSE x \in S : \A y \in S : x >= y

RECURSIVE SortedRange(_, _, _)
\* the elements of S within lo..hi in increasing order
SortedRange(S, lo, hi) ==
    IF lo > hi THEN <<>>
    ELSE IF lo = hi THEN (IF lo \in S THEN <<lo>> ELSE <<>>)
    ELSE LET mid == (lo + hi) \div 2
         IN SortedRange(S, lo, mid) \o SortedRange(S, mid + 1, hi)

\* the elements of a set of integers in increasing order
SortedSeq(S) == IF S = {} THEN <<>> ELSE SortedRange(S, SetMin(S), SetMax(S))

Column(rows, name) == [i \in 1..Len(rows) |-> rows[i][name]]

----------------------------------------------------------------------------
(* load_sales_from_supabase *)

\* a grouping that keeps one record of each date instead of summing them
GroupBySum_KeepLast(data) ==
    LET dates == SortedSeq({data[i].date : i \in 1..Len(data)})
        last(d) == SetMax({i \in 1..Len(data) : data[i].date = d})
    IN [k \in 1..Len(dates) |->
          [Date |-> dates[k], Demand |-> data[last(dates[k])].quantity_sold]]

\* df.groupby("Date", as_index=False)["quantity_sold"].sum(): one row per
\* distinct date, in increasing date order, carrying the sum of the group
GroupBySum(data) ==
    LET dates == SortedSeq({data[i].date : i \in 1..Len(data)})
        total(d) ==
            LET idx == SortedSeq({i \in 1..Len(data) : data[i].date = d})
                qty == [k \in 1..Len(idx) |-> data[idx[k]].quantity_sold]
            IN SeqSum(qty, 1, Len(idx))
    IN [k \in 1..Len(dates) |-> [Date |-> dates[k], Demand |-> total(dates[k])]]

\* res.get("data") or []
DataOrEmpty(r) == IF r.kind = "rows" THEN r.data ELSE <<>>

\* lines 55-57 and the try/except of lines 93-96: does the load raise?
LoadRaises(r) == r.kind \in {"raises", "error"}

\* lines 58-65
LoadSales(r) ==
    LET data == DataOrEmpty(r)
    IN IF Len(data) = 0 THEN <<>> ELSE GroupBySum(data)

----------------------------------------------------------------------------
(* forecast: no-data test and gap filling *)

\* a no-data test that forgets the all-zero case
IsNoData_EmptyOnly(r) == Len(r) = 0

\* raw.empty or raw["Demand"].sum() == 0
IsNoData(r) == Len(r) = 0 \/ SeqSum(Column(r, "Demand"), 1, Len(r)) = 0

\* lines 108-111: date_range(min, max, freq="D"), reindex, fillna(0)
FillMissingDates(r) ==
    LET lo == SetMin({r[i].Date : i \in 1..Len(r)})
        hi == SetMax({r[i].Date : i \in 1..Len(r)})
        at(d) == LET hits == {i \in 1..Len(r) : r[i].Date = d}
                 IN IF hits = {} THEN 0 ELSE r[CHOOSE i \in hits : TRUE].Demand
    IN [k \in 1..(hi - lo + 1) |-> [Date |-> lo + k - 1, Demand |-> at(lo + k - 1)]]

----------------------------------------------------------------------------
(* prepare_features *)

\* Series.shift(k)
Shift(col, k) == [i \in 1..Len(col) |-> IF i <= k THEN NaN ELSE col[i - k]]

\* Series.rolling(window=w).mean(), carried as the window sum
RollingMean(col, w) ==
    [i \in 1..Len(col) |-> IF i < w THEN NaN ELSE SeqSum(col, i - w + 1, i)]

\* Series.rolling(window=w).std(): the sum over the window of (w*x - sum)^2,
\* which is w*w*(w-1) times the square of the sample standard deviation
RollingStd(col, w) ==
    [i \in 1..Len(col) |->
       IF i < w THEN NaN
       ELSE LET s == SeqSum(col, i - w + 1, i)
                dev == [k \in 1..w |-> (w * col[i - w + k] - s) * (w * col[i - w + k] - s)]
            IN SeqSum(dev, 1, w)]

\* Date.dt.dayofweek: Monday is 0; 1970-01-01 was a Thursday
DayOfWeek(d) == (d + 3) % 7

\* row i has a missing value in one of the columns
HasNaN(cols, i) == \E c \in 1..Len(cols) : cols[c][i] = NaN

RECURSIVE KeepRange(_, _, _)
\* the positions lo..hi of the rows without a missing value, in order
KeepRange(cols, lo, hi) ==
    IF lo > hi THEN <<>>
    ELSE IF lo = hi THEN (IF HasNaN(cols, lo) THEN <<>> ELSE <<lo>>)
    ELSE LET mid == (lo + hi) \div 2
         IN KeepRange(cols, lo, mid) \o KeepRange(cols, mid + 1, hi)

\* df.dropna().reset_index(drop=True): the rows without a missing value in
\* the columns cols, in order, renumbered from the first position
DropNa(rows, cols) ==
    LET keep == KeepRange(cols, 1, Len(rows))
    IN [k \in 1..Len(keep) |-> rows[keep[k]]]

\* a time index counted from 1
TimeIndexColumn_OneBased(d) == [i \in 1..Len(d) |-> i]

\* np.arange(len(df)), assigned before dropna
TimeIndexColumn(d) == [i \in 1..Len(d) |-> i - 1]

PrepareFeatures(d) ==
    LET dem == Column(d, "Demand")
        lag1 == Shift(dem, LagShort)
        lag7 == Shift(dem, LagWeek)
        lag90 == Shift(dem, LagLong)
        rm7 == RollingMean(dem, RollWeek)
        rm14 == RollingMean(dem, RollFortnight)
        rs7 == RollingStd(dem, RollWeek)
        tix == TimeIndexColumn(d)
        full == [i \in 1..Len(d) |->
                   [Date |-> d[i].Date, Demand |-> d[i].Demand,
                    DayOfWeek |-> DayOfWeek(d[i].Date),
                    Lag1 |-> lag1[i], Lag7 |-> lag7[i], Lag90 |-> lag90[i],
                    RollMean7 |-> rm7[i], RollMean14 |-> rm14[i],
                    RollStd7 |-> rs7[i],
                    TimeIndex |-> tix[i],
                    IsWeekend |-> IF DayOfWeek(d[i].Date) \in {5, 6} THEN 1 ELSE 0]]
    IN DropNa(full, <<lag1, lag7, lag90, rm7, rm14, rs7>>)

----------------------------------------------------------------------------
(* forecast: split, fit, predict, metrics *)

\* a shrink of the horizon to half of the rows
EffectiveDays_Half(len, d) ==
    IF len <= d THEN Max(ShrinkFloor, len \div 2) ELSE d

\* a shrink that is skipped when the table has exactly `days` rows
EffectiveDays_Strict(len, d) ==
    IF len < d THEN Max(ShrinkFloor, len \div ShrinkDivisor) ELSE d

\* lines 116-118: the local `days` after the shrink
EffectiveDays(len, d) ==
    IF len <= d THEN Max(ShrinkFloor, len \div ShrinkDivisor) ELSE d

\* df_feat[:k], the first k rows, in place of df_feat[:-k]
SliceHead_First(rows, k) == SubSeq(rows, 1, Min(k, Len(rows)))

\* df_feat[:-k] for k > 0: all but the last k rows, nothing if there are
\* k rows or fewer
SliceHead(rows, k) == SubSeq(rows, 1, Max(0, Len(rows) - k))

\* df_feat[-k:] for k > 0: the last k rows, all of them if there are fewer
SliceTail(rows, k) == SubSeq(rows, Max(0, Len(rows) - k) + 1, Len(rows))

\* model.fit(X_train, y_train): the regressor rejects a training set of no
\* rows with a ValueError, which the handler does not catch
FitRaises(tr) == Len(tr) = 0

\* model.predict(X_test): one value per test row.  A forest's output is an
\* average of training targets, so it lies between the least and the
\* greatest of them; the two extreme forecasts are enumerated (they are
\* the same forecast when the training targets are all equal)
Predict(tr, te) ==
    LET y == {tr[i].Demand : i \in 1..Len(tr)}
    IN {[i \in 1..Len(te) |-> v] : v \in {SetMin(y), SetMax(y)}}

RECURSIVE SetProd(_)
SetProd(S) == IF S = {} THEN 1
              ELSE LET x == CHOOSE y \in S : TRUE IN x * SetProd(S \ {x})

\* mean(abs((y - f) / (y + 1e-5))) * 100, in hundredths of a percent, as the
\* exact fraction num / den over the common denominator of the rows
Mape(y, f) ==
    LET n == Len(y)
        p == SetProd({y[i] + Eps : i \in 1..n})
        term == [i \in 1..n |-> Abs(y[i] - f[i]) * (p \div (y[i] + Eps))]
    IN [num |-> Hundred * SeqSum(term, 1, n), den |-> n * p]

\* an accuracy without the clamp at 0
ReportedAccuracy_NoClamp(y, f) ==
    LET m == Mape(y, f) IN {Hundred - (m.num \div m.den)}

\* float(round(max(0.0, 100.0 - mape), 2)) in hundredths of a percent: the
\* set of values the floating-point evaluation can give.  When 100 - mape
\* lies exactly halfway between two hundredths the rounding error of the
\* division decides the side, so both neighbours are possible.  The mean of
\* an empty window is NaN, and max(0.0, NaN) is 0.0.
ReportedAccuracy(y, f) ==
    IF Len(y) = 0 THEN {0}
    ELSE LET m == Mape(y, f)
             q == m.num \div m.den
             r == m.num % m.den
         IN IF q >= Hundred THEN {0}
            ELSE IF 2 * r < m.den THEN {Hundred - q}
            ELSE IF 2 * r > m.den THEN {Hundred - q - 1}
            ELSE {Hundred - q, Hundred - q - 1}

----------------------------------------------------------------------------
(* Outcomes *)

NoOutcome ==
    [kind |-> "none", status |-> 0, detail |-> "",
     dates |-> <<>>, actual |-> <<>>, predicted |-> <<>>, accuracy |-> 0]

Failure(why) ==
    [kind |-> "failure", status |-> 500, detail |-> why,
     dates |-> <<>>, actual |-> <<>>, predicted |-> <<>>, accuracy |-> 0]

Bundle(d, a, p, acc) ==
    [kind |-> "bundle", status |-> 200, detail |-> "",
     dates |-> d, actual |-> a, predicted |-> p, accuracy |-> acc]

\* lines 100-105
Sentinel == Bundle(<<>>, <<>>, <<>>, 0)

\* the dates of every feature row in place of the test window's
ResultDates_AllRows(te) == Column(df_feat, "Date")

\* line 154; the date strings are carried as the day numbers they name
ResultDates(te) == Column(te, "Date")

\* line 155
ResultActual(te) == Column(te, "Demand")

----------------------------------------------------------------------------
(* Inputs *)

Obs(d, q) == [date |-> d, quantity_sold |-> q]

\* a few records, in any order, on dates that span 1, 2, 97 and 98 days
SparseDates == {0, 96, 97}
SparseQty == {0, 3, 4}
SparseObs == {Obs(d, q) : d \in SparseDates, q \in SparseQty}
SparseInputs == UNION {[1..n -> SparseObs] : n \in 0..MaxObs}

\* one record of demand 10.0 on every day of a gap-free history: a few short
\* histories and every length around the lookback of 90 days
DenseQty == 10 * 100000
DenseSpans == {1, 7, 14, 50} \cup (88..MaxSpan)
DenseInputs == {[i \in 1..n |-> Obs(i - 1, DenseQty)] : n \in DenseSpans}

\* every horizon up to MaxDaysChecked and the largest one for the dense
\* histories, every horizon of the request's range at the spans of 97 and 98
\* days, the least, the default and the largest horizon for the sparse results
DefaultDays == 30
DenseDays == (MinDays..MaxDaysChecked) \cup {MaxDays}
AllDays == MinDays..MaxDays
BoundaryInputs == {[i \in 1..n |-> Obs(i - 1, DenseQty)] : n \in {97, 98}}
SparseDays == {MinDays, DefaultDays, MaxDays}

\* test windows and forecasts handed to the accuracy evaluator on its own:
\* actual demands of 0 and of 0.2, forecasts off by -1, 0, 1 or 2 units
ActualSet == {0, 20000}
DeltaSet == {-1, 0, 1, 2}

FailingResponses ==
    {[kind |-> k, data |-> <<>>] : k \in {"raises", "error", "missing"}}

----------------------------------------------------------------------------
(* The handler *)

Init ==
    /\ pc = "start"
    /\ \/ res \in FailingResponses /\ query_days \in SparseDays
       \/ /\ res \in {[kind |-> "rows", data |-> d] : d \in SparseInputs}
          /\ query_days \in SparseDays
       \/ /\ res \in {[kind |-> "rows", data |-> d] : d \in DenseInputs}
          /\ query_days \in DenseDays
       \/ /\ res \in {[kind |-> "rows", data |-> d] : d \in BoundaryInputs}
          /\ query_days \in AllDays
    /\ days = query_days
    /\ raw = <<>>
    /\ df = <<>>
    /\ df_feat = <<>>
    /\ train = <<>>
    /\ test = <<>>
    /\ model = "unfit"
    /\ forecast_vals = <<>>
    /\ outcome = NoOutcome

\* lines 93-96: the load raised, HTTPException(500, detail=str(e))
LoadFails ==
    /\ pc = "start"
    /\ LoadRaises(res)
    /\ outcome' = Failure(res.kind)
    /\ pc' = "done"
    /\ UNCHANGED <<res, query_days, days, raw, df, df_feat, train, test, model,
                   forecast_vals>>

\* line 94: the load returned
Load ==
    /\ pc = "start"
    /\ ~LoadRaises(res)
    /\ raw' = LoadSales(res)
    /\ pc' = "loaded"
    /\ UNCHANGED <<res, query_days, days, df, df_feat, train, test, model,
                   forecast_vals, outcome>>

\* lines 98-105
ReturnNoData ==
    /\ pc = "loaded"
    /\ IsNoData(raw)
    /\ outcome' = Sentinel
    /\ pc' = "done"
    /\ UNCHANGED <<res, query_days, days, raw, df, df_feat, train, test, model,
                   forecast_vals>>

\* lines 107-111
Reconstruct ==
    /\ pc = "loaded"
    /\ ~IsNoData(raw)
    /\ df' = FillMissingDates(raw)
    /\ pc' = "filled"
    /\ UNCHANGED <<res, query_days, days, raw, df_feat, train, test, model,
                   forecast_vals, outcome>>

\* line 114
Features ==
    /\ pc = "filled"
    /\ df_feat' = PrepareFeatures(df)
    /\ pc' = "features"
    /\ UNCHANGED <<res, query_days, days, raw, df, train, test, model,
                   forecast_vals, outcome>>

\* lines 116-120
Split ==
    /\ pc = "features"
    /\ days' = EffectiveDays(Len(df_feat), days)
    /\ train' = SliceHead(df_feat, days')
    /\ test' = SliceTail(df_feat, days')
    /\ pc' = "split"
    /\ UNCHANGED <<res, query_days, raw, df, df_feat, model, forecast_vals,
                   outcome>>

\* line 146 raising
FitFails ==
    /\ pc = "split"
    /\ FitRaises(train)
    /\ outcome' = Failure("fit")
    /\ pc' = "done"
    /\ UNCHANGED <<res, query_days, days, raw, df, df_feat, train, test, model,
                   forecast_vals>>

\* lines 146-147
FitPredict ==
    /\ pc = "split"
    /\ ~FitRaises(train)
    /\ model' = "fitted"
    /\ forecast_vals' \in Predict(train, test)
    /\ pc' = "predicted"
    /\ UNCHANGED <<res, query_days, days, raw, df, df_feat, train, test,
                   outcome>>

\* lines 149-163
Respond ==
    /\ pc = "predicted"
    /\ \E acc \in ReportedAccuracy(Column(test, "Demand"), forecast_vals) :
         outcome' = Bundle(ResultDates(test), ResultActual(test),
                           forecast_vals, acc)
    /\ pc' = "done"
    /\ UNCHANGED <<res, query_days, days, raw, df, df_feat, train, test, model,
                   forecast_vals>>

Next ==
    \/ LoadFails
    \/ Load
    \/ ReturnNoData
    \/ Reconstruct
    \/ Features
    \/ Split
    \/ FitFails
    \/ FitPredict
    \/ Respond

Spec == Init /\ [][Next]_vars

\* The accuracy evaluator (lines 149-163) on its own: the handler stands
\* after predict with a test window and a forecast drawn from small sets
InitAcc ==
    /\ pc = "predicted"
    /\ \E n \in 1..MaxTest :
         \E y \in [1..n -> ActualSet], delta \in [1..n -> DeltaSet] :
            /\ \A i \in 1..n : y[i] + delta[i] >= 0
            /\ test = [i \in 1..n |-> [Date |-> i - 1, Demand |-> y[i]]]
            /\ forecast_vals = [i \in 1..n |-> y[i] + delta[i]]
    /\ res = [kind |-> "rows", data |-> <<>>]
    /\ query_days = MinDays
    /\ days = MinDays
    /\ raw = <<>>
    /\ df = <<>>
    /\ df_feat = <<>>
    /\ train = <<>>
    /\ model = "fitted"
    /\ outcome = NoOutcome

NextAcc == Respond

SpecAcc == InitAcc /\ [][NextAcc]_vars

----------------------------------------------------------------------------
(* Properties *)

\* the dates of the query result, and the total quantity recorded on a date
ObservedDates == {res.data[i].date : i \in 1..Len(res.data)}
QuantityOn(d) ==
    LET idx == SortedSeq({i \in 1..Len(res.data) : res.data[i].date = d})
    IN SeqSum([k \in 1..Len(idx) |-> res.data[idx[k]].quantity_sold], 1, Len(idx))

\* C1, as stated: after the split, when the feature table has L <= D rows
\* for the requested horizon D, the test window has max(7, floor(L/3)) rows
\* and the training window L - max(7, floor(L/3)) rows, for every L >= 0.
C1_ShrinkWidths_AsStated ==
    (pc = "split" /\ Len(df_feat) <= query_days) =>
        /\ Len(test) = Max(7, Len(df_feat) \div 3)
        /\ Len(train) = Len(df_feat) - Max(7, Len(df_feat) \div 3)

\* C1, amended: after the split, when the feature table has L <= D rows, the
\* test window has min(L, max(7, floor(L/3))) rows and the training window
\* the other L - test rows (so for L < 7 the test window is the whole table
\* and the training window is empty).
C1_ShrinkWidths ==
    (pc = "split" /\ Len(df_feat) <= query_days) =>
        /\ Len(test) = Min(Len(df_feat), Max(7, Len(df_feat) \div 3))
        /\ Len(train) = Len(df_feat) - Len(test)
        /\ train \o test = df_feat

C1_Witness ==
    /\ pc = "split"
    /\ Len(df_feat) <= query_days
    /\ Len(df_feat) \div 3 > 7
    /\ Len(test) = Len(df_feat) \div 3

\* C2: the reconstructed daily series has (max_date - min_date) + 1 rows on
\* contiguous increasing dates, and the demand of each day is the sum of the
\* quantities observed on that day (0 when there is none), whatever the
\* order of the observations.
C2_Reconstruction ==
    pc = "filled" =>
        LET seen == ObservedDates
            first == SetMin(seen)
            last == SetMax(seen)
        IN /\ Len(df) = last - first + 1
           /\ \A k \in 1..Len(df) :
                 /\ df[k].Date = first + k - 1
                 /\ df[k].Demand = QuantityOn(df[k].Date)
                 /\ df[k].Date \notin seen => df[k].Demand = 0

C2_Witness ==
    /\ pc = "filled"
    /\ Len(res.data) = 2
    /\ res.data[1].date = res.data[2].date
    /\ res.data[1].quantity_sold = 3
    /\ res.data[2].quantity_sold = 4
    /\ Len(df) = 1
    /\ df[1].Demand = 7

\* the query returned rows, and none of them carries a quantity
NoObservedDemand ==
    /\ res.kind = "rows"
    /\ \A i \in 1..Len(res.data) : res.data[i].quantity_sold = 0

\* C3: when the data source yields no observations, or only observations of
\* quantity zero, the handler returns exactly the empty bundle with accuracy
\* 0.0, without reconstructing the series, fitting a model or failing.
C3_NoDataSentinel ==
    NoObservedDemand =>
        /\ pc \in {"start", "loaded", "done"}
        /\ pc = "done" => outcome = Sentinel
        /\ df = <<>>
        /\ df_feat = <<>>
        /\ model = "unfit"

C3_Witness ==
    /\ NoObservedDemand
    /\ Len(res.data) > 0
    /\ pc = "done"
    /\ outcome = Sentinel

\* C4: when the feature table has no more rows than the effective horizon,
\* so that the training window is empty after the split, the invocation ends
\* in a failure: no model is fitted and no bundle is returned.
C4_EmptyTrainFails ==
    (pc \in {"predicted", "done"} /\ Len(df) > 0 /\ Len(df_feat) <= days) =>
        /\ Len(train) = 0
        /\ pc = "done"
        /\ outcome.kind = "failure"
        /\ outcome # Sentinel
        /\ model = "unfit"

C4_Witness ==
    /\ pc = "done"
    /\ Len(df_feat) > 0
    /\ Len(df_feat) <= days
    /\ Len(train) = 0
    /\ outcome.kind = "failure"

\* C5: every invocation ends in a failure or in a bundle whose dates, actual
\* and predicted sequences have the same length.
C5_NoPartialResult ==
    pc = "done" =>
        \/ outcome.kind = "failure"
        \/ /\ outcome.kind = "bundle"
           /\ Len(outcome.dates) = Len(outcome.actual)
           /\ Len(outcome.actual) = Len(outcome.predicted)

C5_Witness ==
    /\ pc = "done"
    /\ outcome.kind = "bundle"
    /\ Len(outcome.dates) >= 7
    /\ Len(outcome.dates) = Len(outcome.predicted)

\* the bundle of a test window that is not empty
NonEmptyBundle ==
    pc = "done" /\ outcome.kind = "bundle" /\ Len(outcome.actual) > 0

\* C6, as stated: for a non-empty test window the reported accuracy lies in
\* [0, 100], and it is 100.0 only when every prediction equals its actual.
C6_AccuracyBound_AsStated ==
    NonEmptyBundle =>
        /\ outcome.accuracy \in 0..Hundred
        /\ outcome.accuracy = Hundred => outcome.predicted = outcome.actual

\* C6, amended: for a non-empty test window the reported accuracy lies in
\* [0, 100]; it is 100.0 only when the MAPE is at most 0.005 (so that
\* 100 - MAPE rounds to 100.00), and it is 100.0 whenever every prediction
\* equals its actual.
C6_AccuracyBound ==
    NonEmptyBundle =>
        LET m == Mape(outcome.actual, outcome.predicted)
        IN /\ outcome.accuracy \in 0..Hundred
           /\ outcome.accuracy = Hundred =>
                (m.num \div m.den = 0 /\ 2 * (m.num % m.den) <= m.den)
           /\ outcome.predicted = outcome.actual => outcome.accuracy = Hundred

C6_Witness ==
    /\ NonEmptyBundle
    /\ outcome.accuracy = Hundred
    /\ outcome.predicted # outcome.actual

\* C7, as stated: when the query fails (it raises, reports an error, or
\* answers without a usable data field) the handler ends in a failure and
\* never in the empty no-data bundle.
C7_UpstreamFailureSurfaced ==
    (pc = "done" /\ res.kind \in {"raises", "error", "missing"}) =>
        /\ outcome.kind = "failure"
        /\ outcome # Sentinel

\* C8, as stated: the i-th retained row (i = 0, 1, ...) of the feature table
\* has TimeIndex i.
C8_FreshTimeIndex_AsStated ==
    pc = "features" =>
        \A i \in 1..Len(df_feat) : df_feat[i].TimeIndex = i - 1

\* C8, amended: the i-th retained row (i = 0, 1, ...) of the feature table
\* has TimeIndex i + (number of leading rows dropped), its 0-based position
\* in the reconstructed series, so the first retained row has TimeIndex 90.
C8_TimeIndex ==
    pc = "features" =>
        /\ \A i \in 1..Len(df_feat) :
              /\ df_feat[i].TimeIndex = (i - 1) + (Len(df) - Len(df_feat))
              /\ df[df_feat[i].TimeIndex + 1].Date = df_feat[i].Date
        /\ Len(df_feat) > 0 => df_feat[1].TimeIndex = 90

C8_Witness ==
    /\ pc = "features"
    /\ Len(df_feat) > 1
    /\ df_feat[1].TimeIndex = 90
    /\ df_feat[2].TimeIndex = 91

\* a gap-free 120-day series of demand 10 on every day, requested horizon 30
Scenario120 ==
    /\ res.kind = "rows"
    /\ Len(res.data) = 120
    /\ \A i \in 1..120 : res.data[i] = Obs(i - 1, DenseQty)
    /\ query_days = 30

\* C9, as stated: in the 120-day scenario feature engineering drops the
\* first 89 rows and leaves 31, the shrink is not triggered, and the test
\* window has 30 rows with 1 training row.
C9_Scenario120_AsStated ==
    (Scenario120 /\ pc = "split") =>
        /\ Len(df) - Len(df_feat) = 89
        /\ Len(df_feat) = 31
        /\ days = 30
        /\ Len(test) = 30
        /\ Len(train) = 1

\* C9, amended: in the 120-day scenario feature engineering drops the first
\* 90 rows and leaves 30, which is not more than the horizon of 30, so the
\* shrink is triggered: the horizon becomes max(7, 30 div 3) = 10, the test
\* window has 10 rows and the training window 20.
C9_Scenario120 ==
    (Scenario120 /\ pc = "split") =>
        /\ Len(df) = 120
        /\ Len(df) - Len(df_feat) = 90
        /\ Len(df_feat) = 30
        /\ df_feat[1].Date = df[91].Date
        /\ days = 10
        /\ Len(test) = 10
        /\ Len(train) = 20

C9_Witness ==
    /\ Scenario120
    /\ pc = "split"
    /\ Len(df_feat) = 30
    /\ Len(test) = 10

\* C10: for every horizon and every observation set of non-zero total
\* demand, the training window is non-empty exactly when the reconstructed
\* series spans at least 98 days, and then the test window has between 7
\* rows and the requested number of rows.
C10_MinimumHistory ==
    pc = "split" =>
        /\ Len(train) > 0 <=> Len(df) >= 98
        /\ Len(df) >= 98 => (7 <= Len(test) /\ Len(test) <= query_days)

C10_Witness ==
    /\ pc = "split"
    /\ Len(df) = 98
    /\ Len(train) = 1
    /\ Len(test) = 7
    /\ query_days = MaxDays

====
